---------------------------- MODULE Spec2Model ----------------------------
(***************************************************************************)
(* Model of src/Bot.py: the paper ledger (PaperState, paper_fill,          *)
(* mark_to_market), the order-book normalisation (top_of_book,             *)
(* mid_spread) and the polling loop of main().                             *)
(*                                                                         *)
(* Python floats are modelled as exact rationals [n, d] in lowest terms    *)
(* with d > 0: every +, -, *, / and comparison of the source is the exact  *)
(* operation.  Rounding, inf and nan are outside the model.                *)
(***************************************************************************)
EXTENDS Integers, Sequences, FiniteSets, TLC

VARIABLES state, last_mids, top, mid, mom, prices, nav, cmd, pc, e, call, ret, out, cycles, fills

vars == <<state, last_mids, top, mid, mom, prices, nav, cmd, pc, e, call, ret, out, cycles, fills>>

(***************************************************************************)
(* Exact arithmetic standing for the float operations of the source.      *)
(***************************************************************************)
Abs(x) == IF x < 0 THEN -x ELSE x

RECURSIVE GCD(_, _)
GCD(a, b) == IF b = 0 THEN a ELSE GCD(b, a % b)

\* the rational n/d (d # 0) in lowest terms, sign carried by the numerator
R(n, d) ==
    LET g == GCD(Abs(n), Abs(d))
        s == IF d < 0 THEN -1 ELSE 1
    IN  [n |-> (s * n) \div g, d |-> Abs(d) \div g]

Zero == R(0, 1)

RAdd(x, y) == R(x.n * y.d + y.n * x.d, x.d * y.d)
RSub(x, y) == R(x.n * y.d - y.n * x.d, x.d * y.d)
RMul(x, y) == R(x.n * y.n, x.d * y.d)
\* x / y for y # 0 (the source divides only under the guard new_pos > 0)
RDiv(x, y) == R(x.n * y.d, x.d * y.n)
RLt(x, y)  == x.n * y.d < y.n * x.d
RLe(x, y)  == x.n * y.d <= y.n * x.d

(***************************************************************************)
(* Python values.                                                          *)
(***************************************************************************)
\* None where a str (or an exception) is expected
None == "None"

\* None where a float is expected
NoFloat == [n |-> 0, d |-> 0]

\* dict.get(k, default)
Get(d, k, default) == IF k \in DOMAIN d THEN d[k] ELSE default

\* d[k] = v
Put(d, k, v) == [x \in (DOMAIN d) \cup {k} |-> IF x = k THEN v ELSE d[x]]

EmptyDict == [x \in {} |-> Zero]

\* PaperState(): cash 100.0, no positions, no averages, no fees
PaperState == [cash |-> R(100, 1), pos |-> EmptyDict, avg |-> EmptyDict, fees_paid |-> Zero]

\* BookTop(): every field absent
BookTop == [bid_p |-> NoFloat, bid_s |-> NoFloat, ask_p |-> NoFloat, ask_s |-> NoFloat]

(***************************************************************************)
(* paper_fill.  The result is the tuple the function returns together      *)
(* with the PaperState it leaves behind (the source mutates it in place).  *)
(***************************************************************************)
InsufficientCash(st, cost, fee) == RLt(st.cash, RAdd(cost, fee))

InsufficientPosition(prev, size) == RLt(prev, size)

Rejected(st, msg) == [state |-> st, ok |-> FALSE, msg |-> msg]

Filled(st, msg) == [state |-> st, ok |-> TRUE, msg |-> msg]

\* new_avg = (prev * prev_avg + size * px) / new_pos if new_pos > 0 else 0.0
NewAvg(prev, prev_avg, px, size) ==
    LET new_pos == RAdd(prev, size)
    IN  IF RLt(Zero, new_pos)
        THEN RDiv(RAdd(RMul(prev, prev_avg), RMul(size, px)), new_pos)
        ELSE Zero

BuyNoFeeDebit(st, token_id, px, size, cost, fee) ==
    LET prev     == Get(st.pos, token_id, Zero)
        prev_avg == Get(st.avg, token_id, Zero)
    IN  [cash      |-> RSub(st.cash, cost),
         pos       |-> Put(st.pos, token_id, RAdd(prev, size)),
         avg       |-> Put(st.avg, token_id, NewAvg(prev, prev_avg, px, size)),
         fees_paid |-> RAdd(st.fees_paid, fee)]

\* the BUY branch past its check
BuyApply(st, token_id, px, size, cost, fee) ==
    LET prev     == Get(st.pos, token_id, Zero)
        prev_avg == Get(st.avg, token_id, Zero)
    IN  [cash      |-> RSub(st.cash, RAdd(cost, fee)),
         pos       |-> Put(st.pos, token_id, RAdd(prev, size)),
         avg       |-> Put(st.avg, token_id, NewAvg(prev, prev_avg, px, size)),
         fees_paid |-> RAdd(st.fees_paid, fee)]

SellResetsAvg(st, token_id, size, cost, fee) ==
    LET prev    == Get(st.pos, token_id, Zero)
        new_pos == RSub(prev, size)
    IN  [cash      |-> RAdd(st.cash, RSub(cost, fee)),
         pos       |-> Put(st.pos, token_id, new_pos),
         avg       |-> IF new_pos = Zero THEN Put(st.avg, token_id, Zero) ELSE st.avg,
         fees_paid |-> RAdd(st.fees_paid, fee)]

\* the SELL branch past its check
SellApply(st, token_id, size, cost, fee) ==
    LET prev == Get(st.pos, token_id, Zero)
    IN  [cash      |-> RAdd(st.cash, RSub(cost, fee)),
         pos       |-> Put(st.pos, token_id, RSub(prev, size)),
         avg       |-> st.avg,
         fees_paid |-> RAdd(st.fees_paid, fee)]

paper_fill_debit_first(st, token_id, side, px, size, fee_rate) ==
    LET cost == RMul(px, size)
        fee  == RMul(cost, fee_rate)
        debited == [st EXCEPT !.cash = RSub(st.cash, RAdd(cost, fee))]
    IN  IF side = "BUY"
        THEN IF InsufficientCash(st, cost, fee)
             THEN Rejected(debited, <<"Not enough cash">>)
             ELSE Filled(BuyApply(st, token_id, px, size, cost, fee), <<"BUY", size, px>>)
        ELSE IF InsufficientPosition(Get(st.pos, token_id, Zero), size)
             THEN Rejected(st, <<"Not enough position">>)
             ELSE Filled(SellApply(st, token_id, size, cost, fee), <<"SELL", size, px>>)

paper_fill(st, token_id, side, px, size, fee_rate) ==
    LET cost == RMul(px, size)
        fee  == RMul(cost, fee_rate)
    IN  IF side = "BUY"
        THEN IF InsufficientCash(st, cost, fee)
             THEN Rejected(st, <<"Not enough cash">>)
             ELSE Filled(BuyApply(st, token_id, px, size, cost, fee), <<"BUY", size, px>>)
        ELSE IF InsufficientPosition(Get(st.pos, token_id, Zero), size)
             THEN Rejected(st, <<"Not enough position">>)
             ELSE Filled(SellApply(st, token_id, size, cost, fee), <<"SELL", size, px>>)

\* the arguments of one paper_fill call
Call(token_id, side, px, size, fee_rate) ==
    [token_id |-> token_id, side |-> side, px |-> px, size |-> size, fee_rate |-> fee_rate]

\* no paper_fill call made yet, nothing returned yet
NoCall == Call(None, None, NoFloat, NoFloat, NoFloat)

NoRet == [ok |-> FALSE, msg |-> <<>>]

(***************************************************************************)
(* Text.  A str is a sequence of one-character strings, so that strip,     *)
(* lower and float are computed character by character.                    *)
(***************************************************************************)
Digits == {"0", "1", "2", "3", "4", "5", "6", "7", "8", "9"}

DigitVal(c) ==
    CASE c = "0" -> 0 [] c = "1" -> 1 [] c = "2" -> 2 [] c = "3" -> 3 [] c = "4" -> 4
      [] c = "5" -> 5 [] c = "6" -> 6 [] c = "7" -> 7 [] c = "8" -> 8 [] c = "9" -> 9

RECURSIVE Strip(_)
\* str.strip()
Strip(txt) ==
    IF txt = <<>> THEN txt
    ELSE IF Head(txt) = " " THEN Strip(Tail(txt))
    ELSE IF txt[Len(txt)] = " " THEN Strip(SubSeq(txt, 1, Len(txt) - 1))
    ELSE txt

LowerChar(c) ==
    CASE c = "B" -> "b" [] c = "S" -> "s" [] c = "Q" -> "q" [] c = "X" -> "x" [] OTHER -> c

RECURSIVE Lower(_)
\* str.lower(), on the letters the command alphabet uses
Lower(txt) == IF txt = <<>> THEN <<>> ELSE <<LowerChar(Head(txt))>> \o Lower(Tail(txt))

RECURSIVE Pow10(_)
Pow10(k) == IF k = 0 THEN 1 ELSE 10 * Pow10(k - 1)

RECURSIVE DecimalValue(_)
\* the integer a string of digits denotes
DecimalValue(ds) ==
    IF ds = <<>> THEN 0 ELSE 10 * DecimalValue(SubSeq(ds, 1, Len(ds) - 1)) + DigitVal(ds[Len(ds)])

float_lenient(txt) ==
    LET s      == Strip(txt)
        signed == s # <<>> /\ Head(s) \in {"+", "-"}
        body   == IF signed THEN Tail(s) ELSE s
        ds     == SelectSeq(body, LAMBDA c : c \in Digits)
        sgn    == IF signed /\ Head(s) = "-" THEN -1 ELSE 1
    IN  [raised |-> None, val |-> R(sgn * DecimalValue(ds), 1)]

\* float(txt) for plain decimal text: [sign] digits [. digits] or [sign] . digits;
\* anything else raises ValueError.  Exponents, "inf", "nan" and "_" are not
\* part of the input alphabet of the model.
float_(txt) ==
    LET s      == Strip(txt)
        signed == s # <<>> /\ Head(s) \in {"+", "-"}
        body   == IF signed THEN Tail(s) ELSE s
        dots   == {i \in 1..Len(body) : body[i] = "."}
        ds     == SelectSeq(body, LAMBDA c : c # ".")
        wellformed == /\ Cardinality(dots) <= 1
                      /\ ds # <<>>
                      /\ \A i \in 1..Len(ds) : ds[i] \in Digits
        frac   == IF dots = {} THEN 0 ELSE Len(body) - (CHOOSE i \in dots : TRUE)
        sgn    == IF signed /\ Head(s) = "-" THEN -1 ELSE 1
    IN  IF wellformed
        THEN [raised |-> None, val |-> R(sgn * DecimalValue(ds), Pow10(frac))]
        ELSE [raised |-> "ValueError", val |-> NoFloat]

(***************************************************************************)
(* Order-book normalisation.                                               *)
(***************************************************************************)
\* ob.get(side) or []
Levels(ob, side) == IF side \in DOMAIN ob THEN ob[side] ELSE <<>>

BestLevelDeepest(levels) ==
    IF levels = <<>> THEN [raised |-> None, p |-> NoFloat, s |-> NoFloat]
    ELSE LET lv == levels[Len(levels)]
         IN  IF "price" \notin DOMAIN lv \/ "size" \notin DOMAIN lv
             THEN [raised |-> "KeyError", p |-> NoFloat, s |-> NoFloat]
             ELSE [raised |-> None, p |-> float_(lv.price).val, s |-> float_(lv.size).val]

\* float(level["price"]), float(level["size"]) of the first level of one side
BestLevel(levels) ==
    IF levels = <<>> THEN [raised |-> None, p |-> NoFloat, s |-> NoFloat]
    ELSE LET lv == levels[1]
         IN  IF "price" \notin DOMAIN lv \/ "size" \notin DOMAIN lv
             THEN [raised |-> "KeyError", p |-> NoFloat, s |-> NoFloat]
             ELSE LET p == float_(lv.price)
                      s == float_(lv.size)
                  IN  IF p.raised # None \/ s.raised # None
                      THEN [raised |-> "ValueError", p |-> NoFloat, s |-> NoFloat]
                      ELSE [raised |-> None, p |-> p.val, s |-> s.val]

top_of_book(ob) ==
    LET b == BestLevel(Levels(ob, "bids"))
        a == BestLevel(Levels(ob, "asks"))
    IN  IF b.raised # None THEN [raised |-> b.raised, top |-> BookTop]
        ELSE IF a.raised # None THEN [raised |-> a.raised, top |-> BookTop]
        ELSE [raised |-> None,
              top |-> [bid_p |-> b.p, bid_s |-> b.s, ask_p |-> a.p, ask_s |-> a.s]]

mid_spread_zero_side(t) ==
    LET b == IF t.bid_p = NoFloat THEN Zero ELSE t.bid_p
        a == IF t.ask_p = NoFloat THEN Zero ELSE t.ask_p
    IN  [mid |-> RDiv(RAdd(b, a), R(2, 1)), spr |-> RSub(a, b)]

mid_spread(t) ==
    IF t.bid_p = NoFloat \/ t.ask_p = NoFloat
    THEN [mid |-> NoFloat, spr |-> NoFloat]
    ELSE [mid |-> RDiv(RAdd(t.bid_p, t.ask_p), R(2, 1)), spr |-> RSub(t.ask_p, t.bid_p)]

(***************************************************************************)
(* Signals, valuation and recommendation of one cycle.                     *)
(***************************************************************************)
UpdateWindowDropsNewest(w, m) ==
    IF Len(w) >= 30 THEN w ELSE Append(w, m)

\* last_mids.append(mid); if len(last_mids) > 30: last_mids.pop(0)
UpdateWindow(w, m) ==
    LET a == Append(w, m) IN IF Len(a) > 30 THEN Tail(a) ELSE a

MomentumOverEleven(w) ==
    IF Len(w) >= 11 THEN RSub(w[Len(w)], w[Len(w) - 10]) ELSE Zero

\* mom = last_mids[-1] - last_mids[-10] once 10 samples are held, else 0.0
Momentum(w) ==
    IF Len(w) >= 10 THEN RSub(w[Len(w)], w[Len(w) - 9]) ELSE Zero

RECURSIVE SumHeld(_, _, _)
\* for tid, sh in state.pos.items(): a held instrument counts when it has a price
SumHeld(tids, pos, price_of) ==
    IF tids = {} THEN Zero
    ELSE LET tid == CHOOSE t \in tids : TRUE
             rest == SumHeld(tids \ {tid}, pos, price_of)
             mid_ == Get(price_of, tid, NoFloat)
         IN  IF mid_ # NoFloat THEN RAdd(RMul(pos[tid], mid_), rest) ELSE rest

RECURSIVE SumHeldAtAvg(_, _, _, _)
SumHeldAtAvg(tids, pos, avg, price_of) ==
    IF tids = {} THEN Zero
    ELSE LET tid == CHOOSE t \in tids : TRUE
             rest == SumHeldAtAvg(tids \ {tid}, pos, avg, price_of)
             mid_ == Get(price_of, tid, NoFloat)
             p == IF mid_ # NoFloat THEN mid_ ELSE Get(avg, tid, Zero)
         IN  RAdd(RMul(pos[tid], p), rest)

mark_to_market_at_cost(st, price_of) ==
    RAdd(st.cash, SumHeldAtAvg(DOMAIN st.pos, st.pos, st.avg, price_of))

mark_to_market(st, price_of) == RAdd(st.cash, SumHeld(DOMAIN st.pos, st.pos, price_of))

RecommendationNoPositionCheck(spr, m, pos) ==
    IF spr # NoFloat /\ RLe(R(1, 100), spr)
    THEN IF RLt(R(1, 100), m) THEN "BUY small (momentum up)"
         ELSE IF RLt(m, R(-1, 100)) THEN "SELL small (momentum down)"
         ELSE "HOLD / watch"
    ELSE "HOLD (spread too small)"

Recommendation(spr, m, pos) ==
    IF spr # NoFloat /\ RLe(R(1, 100), spr)
    THEN IF RLt(R(1, 100), m) THEN "BUY small (momentum up)"
         ELSE IF RLt(m, R(-1, 100)) /\ RLt(Zero, pos) THEN "SELL small (momentum down)"
         ELSE "HOLD / watch"
    ELSE "HOLD (spread too small)"

(***************************************************************************)
(* The polling loop of main().  pc is the blocking call the loop is in:    *)
(*   "fetch"     get_orderbook(token) in flight                            *)
(*   "command"   input() of the command                                    *)
(*   "size"      input() of the size                                       *)
(*   "sleep"     time.sleep(1) closing a cycle                             *)
(*   "wait_book" time.sleep(2) after a one-sided book                      *)
(*   "recover"   time.sleep(2) inside `except Exception`                   *)
(*   "stopped"   past the loop, "Done." printed                            *)
(*   "crashed"   an exception has propagated out of main()                 *)
(* out is what the current iteration has printed so far; e is the          *)
(* exception bound by `except Exception as e` (or propagating).            *)
(***************************************************************************)
MaxCycles == 3

\* token = pick.token_id_yes or pick.token_id_no
token == "YES"

Level(p, s) == [price |-> p, size |-> s]

Books ==
    { [bids |-> <<Level(<<"0", ".", "4">>, <<"1", "2">>)>>,
       asks |-> <<Level(<<"0", ".", "6">>, <<"5">>)>>],
      [bids |-> <<Level(<<"0", ".", "5", "5">>, <<"1", "2">>), Level(<<"0", ".", "5">>, <<"3">>)>>,
       asks |-> <<Level(<<"0", ".", "5", "6">>, <<"7">>)>>],
      [bids |-> <<Level(<<"0", ".", "4">>, <<"1", "2">>)>>, asks |-> <<>>],
      [asks |-> <<Level(<<"0", ".", "6">>, <<"5">>)>>],
      [bids |-> <<[size |-> <<"1", "2">>]>>, asks |-> <<>>] }

Commands == { <<"b">>, <<" ", "S">>, <<>>, <<"q">>, <<"x">> }

SizeTexts == { <<"1", "0">>, <<"3", "0", "0">>, <<"-", "3", "0", "0">>, <<"a", "b", "c">> }

Init ==
    /\ state = PaperState
    /\ last_mids = <<>>
    /\ top = BookTop
    /\ mid = NoFloat
    /\ mom = NoFloat
    /\ prices = EmptyDict
    /\ nav = NoFloat
    /\ cmd = <<>>
    /\ pc = "fetch"
    /\ e = None
    /\ call = NoCall
    /\ ret = NoRet
    /\ out = <<>>
    /\ cycles = 0
    /\ fills = 0

HandlerBreaksOnEOF(exc) ==
    IF exc \in {"KeyboardInterrupt", "EOFError"} THEN "stopped" ELSE "recover"

\* where an exception raised in the try body leaves the loop: `except
\* KeyboardInterrupt: break`, `except Exception as e: print; time.sleep(2)`
Handler(exc) == IF exc = "KeyboardInterrupt" THEN "stopped" ELSE "recover"

\* an Exception raised in the try body
Raise(exc) ==
    /\ pc' = Handler(exc)
    /\ e' = exc
    /\ out' = Append(out, <<"ERROR:", exc>>)

AfterPauseStopsOnError(p) == IF p = "recover" THEN "stopped" ELSE "fetch"

\* every pause falls through to the top of `while True`
AfterPause(p) == "fetch"

FetchFailResetsWindow ==
    /\ pc = "fetch"
    /\ cycles < MaxCycles
    /\ cycles' = cycles + 1
    /\ Raise("HTTPError")
    /\ last_mids' = <<>>
    /\ UNCHANGED <<state, top, mid, mom, prices, nav, cmd, call, ret, fills>>

\* get_orderbook raises (requests error, timeout, raise_for_status)
FetchFail ==
    /\ pc = "fetch"
    /\ cycles < MaxCycles
    /\ cycles' = cycles + 1
    /\ Raise("HTTPError")
    /\ UNCHANGED <<state, last_mids, top, mid, mom, prices, nav, cmd, call, ret, fills>>

\* the cycle from the returned ob up to the command prompt.
\* score_candidate (spread plus log1p of the sizes) is only printed and is
\* left out of the status line: it has no exact value and nothing reads it.
Fetched(ob) ==
    /\ pc = "fetch"
    /\ cycles' = cycles + 1
    /\ LET t == top_of_book(ob)
       IN  IF t.raised # None
           THEN /\ Raise(t.raised)
                /\ UNCHANGED <<last_mids, top, mid, mom, prices, nav>>
           ELSE LET ms == mid_spread(t.top)
                IN  /\ top' = t.top
                    /\ mid' = ms.mid
                    /\ e' = e
                    /\ IF ms.mid = NoFloat
                       THEN /\ out' = Append(out, <<"no bid/ask">>)
                            /\ pc' = "wait_book"
                            /\ UNCHANGED <<last_mids, mom, prices, nav>>
                       ELSE LET w   == UpdateWindow(last_mids, ms.mid)
                                pr  == [tid \in {token} |-> ms.mid]
                                pos == Get(state.pos, token, Zero)
                                avg == Get(state.avg, token, Zero)
                            IN  /\ last_mids' = w
                                /\ mom' = Momentum(w)
                                /\ prices' = pr
                                /\ nav' = mark_to_market(state, pr)
                                /\ out' = out \o << <<"status", ms.mid, ms.spr, state.cash, pos, avg, nav'>>,
                                                    <<"suggestion:", Recommendation(ms.spr, mom', pos)>> >>
                                /\ pc' = "command"
    /\ UNCHANGED <<state, cmd, call, ret, fills>>

\* get_orderbook returns ob
FetchOk(ob) ==
    /\ cycles < MaxCycles
    /\ Fetched(ob)

\* input() returns the command line
Command(txt) ==
    /\ pc = "command"
    /\ cmd' = Lower(Strip(txt))
    /\ IF cmd' = <<"q">>
       THEN /\ pc' = "stopped"
            /\ out' = Append(out, <<"Done.">>)
       ELSE /\ pc' = IF cmd' \in {<<"b">>, <<"s">>} THEN "size" ELSE "sleep"
            /\ out' = out
    /\ UNCHANGED <<state, last_mids, top, mid, mom, prices, nav, e, call, ret, cycles, fills>>

FillPriceAtMid(c, t, m) == m

\* px = float(top.ask_p) if top.ask_p is not None else mid (buy), and the
\* same with top.bid_p (sell)
FillPrice(c, t, m) ==
    LET quote == IF c = <<"b">> THEN t.ask_p ELSE t.bid_p
    IN  IF quote # NoFloat THEN quote ELSE m

\* input() returns the size line; float() of it, then the fill at the
\* cycle's best ask (buy) or best bid (sell)
SizeInput(txt) ==
    /\ pc = "size"
    /\ LET f == float_(txt)
       IN  IF f.raised # None
           THEN /\ Raise(f.raised)
                /\ UNCHANGED <<state, call, ret, fills>>
           ELSE LET side == IF cmd = <<"b">> THEN "BUY" ELSE "SELL"
                    px == FillPrice(cmd, top, mid)
                    r  == paper_fill(state, token, side, px, f.val, Zero)
                IN  /\ state' = r.state
                    /\ call' = Call(token, side, px, f.val, Zero)
                    /\ ret' = [ok |-> r.ok, msg |-> r.msg]
                    /\ fills' = fills + 1
                    /\ out' = Append(out, <<IF r.ok THEN "OK: " ELSE "NO: ", r.msg>>)
                    /\ pc' = "sleep"
                    /\ e' = e
    /\ UNCHANGED <<last_mids, top, mid, mom, prices, nav, cmd, cycles>>

\* input() meets the end of the command source
InputEOF ==
    /\ pc \in {"command", "size"}
    /\ Raise("EOFError")
    /\ UNCHANGED <<state, last_mids, top, mid, mom, prices, nav, cmd, call, ret, cycles, fills>>

PauseDoneSettlesAtNav ==
    /\ pc \in {"sleep", "wait_book", "recover"}
    /\ pc' = AfterPause(pc)
    /\ e' = None
    /\ out' = <<>>
    /\ state' = IF pc = "sleep" THEN [state EXCEPT !.cash = nav] ELSE state
    /\ UNCHANGED <<last_mids, top, mid, mom, prices, nav, cmd, call, ret, cycles, fills>>

\* a time.sleep returns; the handler's `e` is unbound on leaving it
PauseDone ==
    /\ pc \in {"sleep", "wait_book", "recover"}
    /\ pc' = AfterPause(pc)
    /\ e' = None
    /\ out' = <<>>
    /\ UNCHANGED <<state, last_mids, top, mid, mom, prices, nav, cmd, call, ret, cycles, fills>>

\* KeyboardInterrupt inside the try body: `except KeyboardInterrupt: break`
InterruptInTry ==
    /\ pc \in {"fetch", "command", "size", "sleep", "wait_book"}
    /\ pc' = Handler("KeyboardInterrupt")
    /\ out' = Append(out, <<"Done.">>)
    /\ UNCHANGED <<state, last_mids, top, mid, mom, prices, nav, cmd, e, call, ret, cycles, fills>>

\* KeyboardInterrupt during the handler's time.sleep(2): raised outside
\* the try body, no clause of the statement catches it
InterruptInHandler ==
    /\ pc = "recover"
    /\ pc' = "crashed"
    /\ e' = "KeyboardInterrupt"
    /\ UNCHANGED <<state, last_mids, top, mid, mom, prices, nav, cmd, call, ret, out, cycles, fills>>

Interrupt == InterruptInTry \/ InterruptInHandler

Next ==
    \/ FetchFail
    \/ \E ob \in Books : FetchOk(ob)
    \/ \E txt \in Commands : Command(txt)
    \/ \E txt \in SizeTexts : SizeInput(txt)
    \/ InputEOF
    \/ PauseDone
    \/ InterruptInTry
    \/ InterruptInHandler

Spec == Init /\ [][Next]_vars

\* every time.sleep returns
LiveSpec == Spec /\ WF_vars(PauseDone)

(***************************************************************************)
(* The ledger on its own: paper_fill called directly on a fresh            *)
(* PaperState, with any instrument, side, price, size and fee rate.        *)
(***************************************************************************)
MaxFills == 2

Tokens   == {"YES", "NO"}
Sides    == {"BUY", "SELL"}
Prices   == {R(2, 5), R(3, 5)}
Sizes    == {R(-300, 1), R(0, 1), R(10, 1), R(300, 1)}
FeeRates == {Zero, R(1, 10)}

InitFill ==
    /\ state = PaperState
    /\ last_mids = <<>>
    /\ top = BookTop
    /\ mid = NoFloat
    /\ mom = NoFloat
    /\ prices = EmptyDict
    /\ nav = NoFloat
    /\ cmd = <<>>
    /\ pc = "call"
    /\ e = None
    /\ call = NoCall
    /\ ret = NoRet
    /\ out = <<>>
    /\ cycles = 0
    /\ fills = 0

\* one direct call paper_fill(state, token_id, side, px, size, fee_rate)
PaperFill(token_id, side, px, size, fee_rate) ==
    /\ pc = "call"
    /\ fills < MaxFills
    /\ LET r == paper_fill(state, token_id, side, px, size, fee_rate)
       IN  /\ state' = r.state
           /\ ret' = [ok |-> r.ok, msg |-> r.msg]
    /\ call' = Call(token_id, side, px, size, fee_rate)
    /\ fills' = fills + 1
    /\ UNCHANGED <<last_mids, top, mid, mom, prices, nav, cmd, pc, e, out, cycles>>

NextFill ==
    \E token_id \in Tokens, side \in Sides, px \in Prices, size \in Sizes, fee_rate \in FeeRates :
        PaperFill(token_id, side, px, size, fee_rate)

SpecFill == InitFill /\ [][NextFill]_vars

(***************************************************************************)
(* The ledger under both of its callers: the loop, which always calls      *)
(* paper_fill with the default fee rate, and direct calls with any fee     *)
(* rate.  A behaviour is one of the loop or one of direct calls.           *)
(***************************************************************************)
InitLedger == Init \/ InitFill

NextLedger == Next \/ NextFill

SpecLedger == InitLedger /\ [][NextLedger]_vars

(***************************************************************************)
(* The valuation on its own: after any sequence of direct paper_fill calls *)
(* mark_to_market is called once with a price map that may lack a held     *)
(* instrument, hold None for it, or price an instrument that is not held.  *)
(***************************************************************************)
MarkPrices == {R(2, 1)}

PriceMaps == UNION { [S -> MarkPrices \cup {NoFloat}] : S \in SUBSET Tokens }

\* nav = mark_to_market(state, prices)
Valuate(price_of) ==
    /\ pc = "call"
    /\ prices' = price_of
    /\ nav' = mark_to_market(state, price_of)
    /\ pc' = "valued"
    /\ UNCHANGED <<state, last_mids, top, mid, mom, cmd, e, call, ret, out, cycles, fills>>

NextValue ==
    \/ NextFill
    \/ \E price_of \in PriceMaps : Valuate(price_of)

SpecValue == InitFill /\ [][NextValue]_vars

(***************************************************************************)
(* The loop on a long feed: the book returned at tick k (the k-th fetch,   *)
(* from 0) is quoted around a price that moves up and down with k, with    *)
(* spreads from crossed (-0.01) to 0.02.  At the ticks of SkipTicks the    *)
(* book may also come back with no asks; at the ticks of TradeTicks the    *)
(* user may buy or sell 10 shares; at every other tick the command is      *)
(* skipped.  No quit, interrupt or failure occurs on this feed.            *)
(***************************************************************************)
MaxTicks == 33

SkipTicks == {4, 31}

TradeTicks == {2, 20}

DigitChar(n) ==
    CASE n = 0 -> "0" [] n = 1 -> "1" [] n = 2 -> "2" [] n = 3 -> "3" [] n = 4 -> "4"
      [] n = 5 -> "5" [] n = 6 -> "6" [] n = 7 -> "7" [] n = 8 -> "8" [] n = 9 -> "9"

\* the text "0.cc" of a price of c hundredths, 0 <= c < 100
PriceText(c) == <<"0", ".", DigitChar(c \div 10), DigitChar(c % 10)>>

BidAt(k) == 40 + ((7 * k) % 11)

SpreadAt(k) == (k % 4) - 1

TickBook(k) ==
    [bids |-> <<Level(PriceText(BidAt(k)), <<"1", "2">>)>>,
     asks |-> <<Level(PriceText(BidAt(k) + SpreadAt(k)), <<"5">>)>>]

NoAsksBook(k) == [bids |-> <<Level(PriceText(BidAt(k)), <<"1", "2">>)>>, asks |-> <<>>]

Feed(k) == IF k \in SkipTicks THEN {TickBook(k), NoAsksBook(k)} ELSE {TickBook(k)}

\* the commands offered in the cycle of the latest fetch
CommandsAt(k) == IF k \in TradeTicks THEN { <<>>, <<"b">>, <<"s">> } ELSE { <<>> }

FeedFetch ==
    /\ cycles < MaxTicks
    /\ \E ob \in Feed(cycles) : Fetched(ob)

FeedCommand == \E txt \in CommandsAt(cycles - 1) : Command(txt)

FeedSize == SizeInput(<<"1", "0">>)

NextWindow ==
    \/ FeedFetch
    \/ FeedCommand
    \/ FeedSize
    \/ PauseDone

SpecWindow == Init /\ [][NextWindow]_vars

(***************************************************************************)
(* Properties of paper_fill, checked under SpecFill.  A step with          *)
(* fills' # fills is one paper_fill call: call' holds its arguments, ret'  *)
(* what it returned, state the ledger before and state' the ledger after.  *)
(***************************************************************************)
Cost(c) == RMul(c.px, c.size)

Fee(c) == RMul(Cost(c), c.fee_rate)

Held(st, i) == Get(st.pos, i, Zero)

HeldAvg(st, i) == Get(st.avg, i, Zero)

\* the two conditions under which a fill is to be refused
RejectCase(c, st) ==
    \/ c.side = "BUY" /\ RLt(st.cash, RAdd(Cost(c), Fee(c)))
    \/ c.side = "SELL" /\ RLt(Held(st, c.token_id), c.size)

\* a dict entry other than i is the same before and after (present or not)
SameEntry(d1, d2, t) ==
    /\ t \in DOMAIN d1 <=> t \in DOMAIN d2
    /\ t \in DOMAIN d1 => d1[t] = d2[t]

OthersUnchanged(st1, st2, i) ==
    \A t \in Tokens \ {i} : SameEntry(st1.pos, st2.pos, t) /\ SameEntry(st1.avg, st2.avg, t)

\* C1: a fill is refused exactly when it is a BUY with cash < cost + fee or
\* a SELL with held quantity < size, and a refused fill leaves cash, pos,
\* avg and fees_paid as they were.
RejectedFillLeavesLedger ==
    [][fills' # fills =>
          /\ RejectCase(call', state) <=> ~ret'.ok
          /\ ~ret'.ok => state' = state]_vars

\* C1 witness: a BUY was refused on a ledger that earlier fills had changed
RejectedBuySeen ==
    /\ fills > 1
    /\ ~ret.ok
    /\ call.side = "BUY"
    /\ state # PaperState

\* C2 (as claimed): every position is >= 0 in every reachable ledger
PositionsNonNegative ==
    \A t \in DOMAIN state.pos : RLe(Zero, state.pos[t])

\* C3 (as claimed): cash >= 0 after every successful fill
CashNonNegativeAfterFill ==
    (fills > 0 /\ ret.ok) => RLe(Zero, state.cash)

\* C4 (as claimed): a successful BUY debits cash by cost + fee, credits
\* pos[i] by size, accrues the fee and sets avg[i] to
\* (oldQty*oldAvg + size*px) / (oldQty + size); other instruments untouched.
BuyEffect ==
    [][(fills' # fills /\ call'.side = "BUY" /\ ret'.ok) =>
          LET c      == call'
              i      == c.token_id
              oldQty == Held(state, i)
              oldAvg == HeldAvg(state, i)
          IN  /\ state'.cash = RSub(state.cash, RAdd(Cost(c), Fee(c)))
              /\ Held(state', i) = RAdd(oldQty, c.size)
              /\ state'.fees_paid = RAdd(state.fees_paid, Fee(c))
              /\ RAdd(oldQty, c.size) # Zero
              /\ HeldAvg(state', i) =
                     RDiv(RAdd(RMul(oldQty, oldAvg), RMul(c.size, c.px)), RAdd(oldQty, c.size))
              /\ OthersUnchanged(state, state', i)]_vars

\* C5: a successful SELL debits pos[i] by size, credits cash by cost - fee,
\* accrues the fee and leaves every average (avg[i] included, also when the
\* position reaches 0) and every other position unchanged.
SellEffect ==
    [][(fills' # fills /\ call'.side = "SELL" /\ ret'.ok) =>
          LET c == call'
              i == c.token_id
          IN  /\ Held(state', i) = RSub(Held(state, i), c.size)
              /\ state'.cash = RAdd(state.cash, RSub(Cost(c), Fee(c)))
              /\ state'.fees_paid = RAdd(state.fees_paid, Fee(c))
              /\ state'.avg = state.avg
              /\ OthersUnchanged(state, state', i)]_vars

\* C5 witness: a position sold down to 0 at a fee, its average still set
SoldOutSeen ==
    /\ ret.ok
    /\ call.side = "SELL"
    /\ RLt(Zero, call.size)
    /\ RLt(Zero, call.fee_rate)
    /\ Held(state, call.token_id) = Zero
    /\ RLt(Zero, HeldAvg(state, call.token_id))

(***************************************************************************)
(* Properties of the polling loop, checked under Spec and LiveSpec.        *)
(***************************************************************************)
Terminal == {"stopped", "crashed"}

Suggested(o) == \E k \in 1..Len(o) : o[k][1] = "suggestion:"

\* C6: a cycle whose fetch raises leaves last_mids and the ledger as they
\* were, prints no suggestion and reaches no command prompt: from the
\* failed fetch to the next fetch only the handler's pause is passed.
FetchFailureLeavesState ==
    [][(FetchFail \/ (pc = "recover" /\ e = "HTTPError")) =>
          /\ state' = state
          /\ last_mids' = last_mids
          /\ cmd' = cmd /\ fills' = fills
          /\ ~Suggested(out')
          /\ pc' \in {"recover", "fetch", "crashed"}]_vars

\* C6 witness: a fetch failed with samples in the window and fills applied
FetchFailedSeen ==
    /\ pc = "recover"
    /\ e = "HTTPError"
    /\ last_mids # <<>>
    /\ state # PaperState

\* C7: after a failed fetch the loop pauses and fetches again, unless an
\* interrupt ends it; fetch failures alone never stop it.
RetryAfterFailure ==
    (pc = "recover" /\ e = "HTTPError") ~> (pc = "fetch" \/ e = "KeyboardInterrupt")

\* C7 witness: a fetch failed again after an earlier failed or completed cycle
RepeatedFailureSeen ==
    /\ pc = "recover"
    /\ e = "HTTPError"
    /\ cycles = MaxCycles

Quit == \E txt \in Commands : Command(txt) /\ cmd' = <<"q">>

\* C8: the loop is left only by the step of a quit command or of an
\* interrupt; no fetch error, malformed snapshot, malformed size or end of
\* input ends it.
LoopEndsOnlyOnCancel ==
    [][(pc \notin Terminal /\ pc' \in Terminal) => (Quit \/ Interrupt)]_vars

\* C8 witness: the loop ended on "q" after cycles that applied fills
QuitSeen ==
    /\ pc = "stopped"
    /\ cmd = <<"q">>
    /\ fills > 0

\* C9 (as claimed): an interrupt at any point of the loop leaves it through
\* its normal exit, and the stopped state is terminal.
InterruptStopsLoop ==
    [][(Interrupt => pc' = "stopped") /\ (pc = "stopped" => pc' = "stopped")]_vars

NonNumeric == { <<"a", "b", "c">> }

BadSize == \E txt \in NonNumeric : SizeInput(txt)

\* C10 (as claimed): a non-numeric size applies no fill, leaves the ledger
\* unchanged and the cycle ends with the steady-state pause.
MalformedSizeCompletesCycle ==
    [][BadSize => (state' = state /\ fills' = fills /\ pc' = "sleep")]_vars

\* C10 (amended): a non-numeric size applies no fill and leaves the ledger
\* unchanged; the cycle ends through the error handler (ValueError reported,
\* the longer pause), after which the next fetch follows.
MalformedSizeRecovers ==
    [][/\ BadSize => (state' = state /\ fills' = fills /\ pc' = "recover" /\ e' = "ValueError")
       /\ (pc = "recover" /\ e = "ValueError") =>
              (state' = state /\ fills' = fills /\ pc' \in {"fetch", "crashed"})]_vars

\* C10 witness: a non-numeric size was just rejected on a changed ledger
MalformedSizeSeen ==
    /\ pc = "recover"
    /\ e = "ValueError"
    /\ cmd \in {<<"b">>, <<"s">>}
    /\ state # PaperState

\* a snapshot that normalises and has no best bid or no best ask
OneSided(ob) ==
    /\ top_of_book(ob).raised = None
    /\ Levels(ob, "bids") = <<>> \/ Levels(ob, "asks") = <<>>

Reported(o, tag) == \E k \in 1..Len(o) : o[k][1] = tag

\* C11: a cycle whose snapshot lacks a best bid or a best ask is skipped:
\* window and ledger stay as they were, no suggestion is printed, no command
\* is read and no fill made, the error handler is not entered, and the loop
\* pauses and fetches again (or is interrupted).
IncompleteBookSkipped ==
    [][((\E ob \in Books : OneSided(ob) /\ FetchOk(ob)) \/ pc = "wait_book") =>
          /\ state' = state
          /\ last_mids' = last_mids
          /\ cmd' = cmd /\ fills' = fills
          /\ ~Reported(out', "suggestion:") /\ ~Reported(out', "ERROR:")
          /\ e' = None
          /\ pc' \in {"wait_book", "fetch", "stopped"}
          /\ pc = "fetch" => pc' = "wait_book"]_vars

\* C11 witness: a one-sided book met with samples in the window and a
\* changed ledger
IncompleteBookSeen ==
    /\ pc = "wait_book"
    /\ last_mids # <<>>
    /\ state # PaperState

(***************************************************************************)
(* Properties of the window, the momentum and the recommendation, checked  *)
(* under SpecWindow.  A step from "fetch" to "command" is an accepted      *)
(* cycle: mid' is the sample it accepted.                                  *)
(***************************************************************************)
Accepted == pc = "fetch" /\ pc' = "command"

\* the last n elements of w (all of w when it is shorter)
LastN(w, n) == IF Len(w) <= n THEN w ELSE SubSeq(w, Len(w) - n + 1, Len(w))

\* C12: the window never holds more than 30 samples; an accepted cycle
\* appends exactly its mid at the tail and, once 30 are held, evicts the
\* oldest; nothing else changes the window.  From the empty window this
\* gives, after n accepted mids, the last min(n, 30) of them in arrival order.
WindowIsBoundedFifo ==
    [][/\ Len(last_mids') <= 30
       /\ Accepted => last_mids' = LastN(Append(last_mids, mid'), 30)
       /\ ~Accepted => last_mids' = last_mids]_vars

\* C12 witness: more than 30 mids accepted, the window full
EvictionSeen ==
    /\ pc = "command"
    /\ cycles = 33
    /\ Len(last_mids) = 30

\* C13: the momentum of a cycle is 0 while fewer than 10 samples are held
\* after the append, and otherwise the newest sample minus the sample 9
\* places before it.
MomentumOverTenSamples ==
    pc = "command" =>
        LET n == Len(last_mids)
        IN  mom = IF n < 10 THEN Zero ELSE RSub(last_mids[n], last_mids[n - 9])

\* C13 witness: a falling momentum over a window longer than 10
FallingMomentumSeen ==
    /\ pc = "command"
    /\ Len(last_mids) > 10
    /\ RLt(mom, Zero)

\* the decision as the four rules state it, in priority order
Advice(spr, m, pos) ==
    IF spr = NoFloat \/ RLt(spr, R(1, 100)) THEN "HOLD (spread too small)"
    ELSE IF RLt(R(1, 100), m) THEN "BUY small (momentum up)"
    ELSE IF RLt(m, R(-1, 100)) /\ RLt(Zero, pos) THEN "SELL small (momentum down)"
    ELSE "HOLD / watch"

\* C14: the suggestion printed in a cycle is the one the four rules give for
\* the cycle's spread, momentum and position (out[1] is the status line:
\* mid, spread, cash, position, ...), a crossed book included, and a SELL
\* is never suggested while the position is 0.
SuggestionFollowsRules ==
    pc = "command" =>
        LET spr == out[1][3]
            pos == out[1][5]
            rec == out[2][2]
        IN  /\ out[2][1] = "suggestion:"
            /\ pos = Held(state, token)
            /\ rec = Advice(spr, mom, pos)
            /\ rec = "SELL small (momentum down)" => RLt(Zero, Held(state, token))

\* C14 witness: a SELL suggested on a held position
SellSuggestedSeen ==
    /\ pc = "command"
    /\ out[2][2] = "SELL small (momentum down)"
    /\ RLt(Zero, Held(state, token))

(***************************************************************************)
(* Properties of the ledger inside the loop, checked under Spec.           *)
(***************************************************************************)
Trade == {<<"b">>, <<"s">>}

FillReported(o) == Reported(o, "OK: ") \/ Reported(o, "NO: ")

\* C15: the ledger changes only in the step that applies a buy or sell
\* command of the current cycle; every other step of a cycle (fetch, signal,
\* mark-to-market, suggestion, skip, quit, pause, error handling) leaves
\* cash, pos, avg and fees_paid as they were, and a cycle applies at most
\* one fill: paper_fill is called only where the cycle has reported no
\* fill yet, and the cycle then goes to its pause.
LedgerChangesOnlyByFill ==
    [][/\ state' # state => fills' # fills
       /\ fills' # fills =>
             /\ pc = "size" /\ cmd \in Trade
             /\ fills' = fills + 1
             /\ ~FillReported(out) /\ FillReported(out')
             /\ pc' = "sleep"
       /\ pc' = "fetch" => ~FillReported(out')
       /\ fills <= cycles]_vars

\* C15 witness: a cycle with the command skipped ends with a ledger that an
\* earlier cycle's fill had changed
SkippedCycleSeen ==
    /\ pc = "sleep"
    /\ cmd = <<>>
    /\ ~FillReported(out)
    /\ RLt(Zero, Held(state, token))

\* C16: fees_paid never decreases: after any paper_fill call, accepted or
\* refused, with any price, size and fee rate, it is at least what it was
\* before the call.
FeesPaidMonotone ==
    [][RLe(state.fees_paid, state'.fees_paid)]_vars

(***************************************************************************)
(* Properties of mark_to_market, checked under SpecValue.                  *)
(***************************************************************************)
\* what instrument i adds to the valuation: its quantity times its price
\* when it is held and the map has a price for it, nothing otherwise
Contribution(st, price_of, i) ==
    IF i \in DOMAIN st.pos /\ i \in DOMAIN price_of /\ price_of[i] # NoFloat
    THEN RMul(st.pos[i], price_of[i])
    ELSE Zero

\* C17: mark_to_market returns cash plus pos[i]*prices[i] over the held
\* instruments the price map prices; a held instrument without a price
\* adds nothing, the call raises nothing and leaves the ledger as it was.
ValuationSumsPricedHoldings ==
    [][(pc = "call" /\ pc' = "valued") =>
          /\ nav' = RAdd(state.cash, RAdd(Contribution(state, prices', "YES"),
                                          Contribution(state, prices', "NO")))
          /\ state' = state
          /\ e' = None]_vars

\* C17 witness: two instruments held, one priced and one not
PartlyPricedSeen ==
    /\ pc = "valued"
    /\ RLt(Zero, Held(state, "YES")) /\ RLt(Zero, Held(state, "NO"))
    /\ "YES" \in DOMAIN prices /\ "NO" \notin DOMAIN prices

(***************************************************************************)
(* Properties of top_of_book and mid_spread, checked under Spec on the     *)
(* step that normalises the fetched snapshot.                              *)
(***************************************************************************)
BookSides == {"bids", "asks"}

\* a snapshot as the book endpoint documents it: every level of a side that
\* is present carries a price and a size, both decimal text
WellFormed(ob) ==
    \A side \in BookSides \cap DOMAIN ob : \A k \in 1..Len(ob[side]) :
        /\ {"price", "size"} \subseteq DOMAIN ob[side][k]
        /\ float_(ob[side][k].price).raised = None
        /\ float_(ob[side][k].size).raised = None

\* the value of one field of the first level of a side, absent when the
\* side is missing or empty
Quote(ob, side, field) ==
    IF side \notin DOMAIN ob \/ ob[side] = <<>> THEN NoFloat
    ELSE float_(ob[side][1][field]).val

\* C18: for every snapshot, top_of_book gives an absent price and size on
\* each side whose level list is empty or missing and the first level's
\* price and size on each other side, and raises nothing; mid_spread gives
\* (absent, absent) exactly when the best bid or the best ask is absent and
\* otherwise mid = (bid + ask)/2 and spread = ask - bid.  The loop's mid and
\* printed spread are these values.
BookNormalised ==
    [][\A ob \in Books : (WellFormed(ob) /\ FetchOk(ob)) =>
          LET b  == Quote(ob, "bids", "price")
              a  == Quote(ob, "asks", "price")
              ms == mid_spread(top')
          IN  /\ top_of_book(ob).raised = None
              /\ pc' # "recover" /\ e' = None
              /\ top' = [bid_p |-> b, bid_s |-> Quote(ob, "bids", "size"),
                         ask_p |-> a, ask_s |-> Quote(ob, "asks", "size")]
              /\ (b = NoFloat \/ a = NoFloat) <=> (ms.mid = NoFloat /\ ms.spr = NoFloat)
              /\ (b = NoFloat \/ a = NoFloat) <=> (ms.mid = NoFloat \/ ms.spr = NoFloat)
              /\ (b # NoFloat /\ a # NoFloat) =>
                    /\ ms.mid = RDiv(RAdd(b, a), R(2, 1))
                    /\ ms.spr = RSub(a, b)
                    /\ out'[1][3] = ms.spr
              /\ mid' = ms.mid]_vars

\* C18 witness: a snapshot without a "bids" list was normalised: the bid
\* side is absent, the ask side is the first ask level
MissingSideSeen ==
    /\ pc = "wait_book"
    /\ top.bid_p = NoFloat /\ top.bid_s = NoFloat
    /\ top.ask_p = R(3, 5) /\ top.ask_s = R(5, 1)
    /\ mid = NoFloat

(***************************************************************************)
(* Properties of the price of a fill made by the loop, checked under Spec. *)
(* The status line out[1] of the current cycle carries the mid and the     *)
(* spread of the snapshot fetched in this cycle.                           *)
(***************************************************************************)
\* the best ask and best bid of the snapshot the current cycle printed
AskPrinted(o) == RAdd(o[1][2], RDiv(o[1][3], R(2, 1)))

BidPrinted(o) == RSub(o[1][2], RDiv(o[1][3], R(2, 1)))

\* C19: the loop calls paper_fill only in a cycle whose snapshot had both a
\* best bid and a best ask; a BUY is priced at that cycle's best ask and a
\* SELL at that cycle's best bid, the quote is never absent (the mid is
\* never substituted), and the price is not one of an earlier cycle.
FillAtCurrentQuote ==
    [][fills' # fills =>
          /\ Len(out) >= 1 /\ out[1][1] = "status"
          /\ top.bid_p # NoFloat /\ top.ask_p # NoFloat
          /\ top.ask_p = AskPrinted(out) /\ top.bid_p = BidPrinted(out)
          /\ call'.side = "BUY" <=> cmd = <<"b">>
          /\ call'.side = "SELL" <=> cmd = <<"s">>
          /\ call'.side = "BUY" => call'.px = AskPrinted(out)
          /\ call'.side = "SELL" => call'.px = BidPrinted(out)]_vars

\* C19 witness: a position bought at 0.6 in one cycle was sold at the best
\* bid 0.55 of a later cycle's snapshot
SoldAtLaterBidSeen ==
    /\ pc = "sleep"
    /\ call.side = "SELL" /\ ret.ok
    /\ call.px = R(11, 20)
    /\ HeldAvg(state, token) = R(3, 5)
    /\ top.bid_p = R(11, 20)

(***************************************************************************)
(* Value conservation of a fill, checked under SpecLedger.                 *)
(***************************************************************************)
\* cash + fees_paid + pos[i]*p
Worth(st, i, p) == RAdd(RAdd(st.cash, st.fees_paid), RMul(Held(st, i), p))

\* C20: an accepted paper_fill on instrument i at price p leaves
\* cash + fees_paid + pos[i]*p as it was, that is, it lowers
\* mark_to_market(state, {i: p}) by exactly the fee.  The loop always
\* fills at fee rate 0: there fees_paid is 0 at all times and an accepted
\* fill leaves that valuation unchanged.
FillConservesValue ==
    [][/\ (fills' # fills /\ ret'.ok) =>
             LET i == call'.token_id
                 p == call'.px
                 at_p == [tid \in {i} |-> p]
             IN  /\ Worth(state', i, p) = Worth(state, i, p)
                 /\ mark_to_market(state', at_p) = RSub(mark_to_market(state, at_p), Fee(call'))
                 /\ pc = "size" =>
                       /\ call'.fee_rate = Zero
                       /\ mark_to_market(state', at_p) = mark_to_market(state, at_p)
       /\ pc # "call" => state.fees_paid = Zero /\ state'.fees_paid = Zero]_vars

\* C20 witness: a BUY with a positive fee was accepted
FeePaidOnBuySeen ==
    /\ call.side = "BUY" /\ ret.ok
    /\ RLt(Zero, Fee(call))
    /\ RLt(Zero, state.fees_paid)
    /\ RLt(Zero, Held(state, call.token_id))

=============================================================================
